---- MODULE Spec2Model ----
(***************************************************************************)
(* Model of the pyrundeck client library (rundeck/client.py and the layers *)
(* below it).  Its parts, each with its own specification:                   *)
(*   Spec          Rundeck.run_job: the job-run submission followed by the *)
(*                 blocking status-polling loop                            *)
(*   FairSpec      the same call without the record of its fetches, under  *)
(*                 fairness                                                *)
(*   EnvelopeSpec  connection.RundeckResponse and memoize                  *)
(*   PoolSpec      several RundeckResponse objects in one process          *)
(*   JobIdSpec     client.is_job_id                                        *)
(*   FacadeSpec    the api.RundeckApiTolerant methods down to the          *)
(*                 connection's request                                    *)
(*   ClientSpec    the client operations delete_jobs, get_job_ids,         *)
(*                 get_job_id and update_project_resources                 *)
(*   NodeSpec      util.node2dict                                          *)
(* The variables of the parts a specification does not exercise keep       *)
(* their idle values.                                                      *)
(*                                                                         *)
(* Time is counted in integer ticks, TicksPerSecond to the second in which  *)
(* the timeout and interval arguments are given.  "now" is the value       *)
(* time.time() would return; a status fetch takes 0..MaxLatency ticks and  *)
(* time.sleep(n), with the reading of the clock after it, takes the ticks  *)
(* of n seconds and up to MaxOversleep ticks more.                         *)
(***************************************************************************)
EXTENDS Integers, Sequences, FiniteSets

(* ------------------------------ bounds --------------------------------- *)
\* largest timeout argument tried (the smallest is -1)
MaxTimeout == 3
\* largest interval argument tried (the smallest is 0)
MaxInterval == 2
\* longest time one status fetch may take, in ticks
MaxLatency == 1
\* ticks to the second
TicksPerSecond == 2
\* longest time by which a sleep may exceed the time asked for, in ticks
MaxOversleep == 1
\* status fetches explored per run_job call
MaxFetch == 4

(* --------------------------- program values ---------------------------- *)
\* defaults.Status
RUNNING == "running"
SUCCEEDED == "succeeded"
FAILED == "failed"
ABORTED == "aborted"
SKIPPED == "skipped"
PENDING == "pending"
Status == {RUNNING, SUCCEEDED, FAILED, ABORTED, SKIPPED, PENDING}

\* client._EXECUTION_COMPLETED
EXECUTION_COMPLETED == {FAILED, SUCCEEDED, ABORTED}

\* an execution without the field / a local variable not yet assigned
NoStatus == "<no status>"
NoId == "<no id>"
Unbound == "<unbound>"
\* an exception raised by a call instead of a value
Raises == "<raises>"

ExecIds == {"41", "42"}
Timeouts == (0 - 1)..MaxTimeout
Intervals == 0..MaxInterval

\* an Execution as the 'execution' transform hands it to run_job; seq is
\* server metadata telling the responses of one call apart (0: submission)
Execution(id, status, seq) == [id |-> id, status |-> status, seq |-> seq]
NoExecution == Execution(NoId, NoStatus, 0 - 1)

VARIABLES pc, timeout, interval, now, start, duration, execution, exec_id,
          exec_status, submitted, responses, events, fetch_ids, result, how

vars == <<pc, timeout, interval, now, start, duration, execution, exec_id,
          exec_status, submitted, responses, events, fetch_ids, result, how>>

\* RundeckResponse: the envelope, the property reads made on it, the number
\* of runs of each wrapped property function, the outcome of raise_for_error
VARIABLES env, reads, ran, rfe
envVars == <<env, reads, ran, rfe>>

\* is_job_id: its argument and its result
VARIABLES job_id, job_id_result
jobIdVars == <<job_id, job_id_result>>

\* one call of an api method: the connection, the api class, the call, the
\* keyword arguments handed to connection.request (those it gets by name
\* and, as parts, the params, headers, data and files that were given),
\* the requests sent with the server's answers, the outcome
VARIABLES api_version, strict, api_class, call, handed, sent, outcome
facadeVars == <<api_version, strict, api_class, call, handed, sent, outcome>>

\* one call of a client operation or of a util function: the call with
\* its arguments, the requests it sent, its result
VARIABLES client_call, client_sent, client_result
clientVars == <<client_call, client_sent, client_result>>

\* several envelopes in one process: the live envelopes, the property
\* reads made on them, the cache dict of each memoized function, the
\* number of envelopes created so far
VARIABLES pool, pool_reads, cache, created
poolVars == <<pool, pool_reads, cache, created>>

allVars == <<vars, envVars, jobIdVars, facadeVars, clientVars, poolVars>>

Idle == "<idle>"
PollerIdle ==
    /\ pc = Idle /\ timeout = 0 /\ interval = 0 /\ now = 0 /\ start = 0
    /\ duration = 0 /\ execution = NoExecution /\ exec_id = NoId
    /\ exec_status = Unbound /\ submitted = NoExecution /\ responses = <<>>
    /\ events = <<>> /\ fetch_ids = {} /\ result = NoExecution /\ how = Idle
EnvelopeIdle == env = Idle /\ reads = <<>> /\ ran = Idle /\ rfe = Idle
JobIdIdle == job_id = Idle /\ job_id_result = Idle
\* no keyword arguments
NoKwargs == [n \in {} |-> Idle]
\* no api method called yet, connection.request not invoked, no outcome
NoCall == [op |-> Idle, kwargs |-> NoKwargs]
NotHanded == [called |-> FALSE, kwargs |-> NoKwargs, parts |-> NoKwargs]
NoOutcome == [kind |-> Idle, version |-> 0]
PoolIdle == pool = {} /\ pool_reads = <<>> /\ cache = Idle /\ created = 0
NoClientCall == [op |-> Idle]
NoResult == [kind |-> Idle, value |-> Idle]
ClientIdle ==
    client_call = NoClientCall /\ client_sent = <<>> /\ client_result = NoResult
FacadeIdle ==
    /\ api_version = 0 /\ strict = FALSE /\ api_class = Idle /\ call = NoCall
    /\ handed = NotHanded /\ sent = <<>> /\ outcome = NoOutcome

(* ----------------------------- helpers --------------------------------- *)
Last(s) == s[Len(s)]

RECURSIVE CountOf(_, _)
CountOf(s, x) == IF s = <<>> THEN 0
                 ELSE (IF Head(s) = x THEN 1 ELSE 0) + CountOf(Tail(s), x)

NSubmit == CountOf(events, "submit")
NFetch == CountOf(events, "fetch")
NSleep == CountOf(events, "sleep")

(* ------------------------ pieces of run_job ---------------------------- *)
\* a number of seconds, in ticks
Ticks(seconds) == seconds * TicksPerSecond

\* while (duration < timeout)
LoopCondLax(d, t) == d <= t
LoopCond(d, t) == d < t

\* exec_status in _EXECUTION_COMPLETED
IsCompletedWithSkipped(s) == s \in EXECUTION_COMPLETED \cup {SKIPPED}
IsCompletedNoAborted(s) == s \in {FAILED, SUCCEEDED}
IsCompleted(s) == s \in EXECUTION_COMPLETED

\* except AttributeError: if duration == 0: continue
GraceRetryAlways(d) == TRUE
GraceRetryNever(d) == FALSE
GraceRetry(d) == d = 0

\* exec_id = execution['id'] succeeds only on an execution that has an id
HasIdLenient(e) == TRUE
HasId(e) == e.id # NoId

\* execution['status']: the status, or NoStatus when the lookup raises the
\* AttributeError that run_job catches
StatusLookup(e) == e.status

\* return execution
ReturnValueStale == submitted
ReturnValue == execution

Init ==
    /\ pc = "start"
    /\ timeout \in Timeouts
    /\ interval \in Intervals
    /\ now = 0
    /\ start = 0
    /\ duration = 0
    /\ execution = NoExecution
    /\ exec_id = NoId
    /\ exec_status = Unbound
    /\ submitted = NoExecution
    /\ responses = <<>>
    /\ events = <<>>
    /\ fetch_ids = {}
    /\ result = NoExecution
    /\ how = "running"
    /\ EnvelopeIdle /\ JobIdIdle /\ FacadeIdle /\ ClientIdle /\ PoolIdle

\* a failing self._run_job(job_id, **kwargs): nothing in run_job catches it
SubmitFailsRetried ==
    /\ pc' = IF NSubmit = 0 THEN "start" ELSE "raised"
    /\ how' = how
SubmitFails ==
    /\ pc' = "raised"
    /\ how' = "submit failed"

\* lines 241-248: the submission and the set-up of the loop
Submit ==
    /\ pc = "start"
    /\ events' = Append(events, "submit")
    /\ \E out \in {Raises} \cup (ExecIds \cup {NoId}) :
        IF out = Raises
        THEN /\ SubmitFails
             /\ UNCHANGED <<execution, submitted, exec_id, start, duration>>
        ELSE /\ execution' = Execution(out, RUNNING, 0)
             /\ submitted' = execution'
             /\ IF HasId(execution')
                THEN /\ exec_id' = execution'.id
                     /\ start' = now
                     /\ duration' = 0
                     /\ pc' = "loop"
                     /\ how' = how
                ELSE /\ pc' = "raised"
                     /\ how' = "no id"
                     /\ UNCHANGED <<exec_id, start, duration>>
    /\ UNCHANGED <<timeout, interval, now, exec_status, responses, fetch_ids,
                   result>>
    /\ UNCHANGED <<envVars, jobIdVars, facadeVars, clientVars, poolVars>>

\* a failing self.execution_status(exec_id): the call is outside the try
FetchFailsSwallowed ==
    /\ pc' = "sleep"
    /\ how' = how
FetchFails ==
    /\ pc' = "raised"
    /\ how' = "fetch failed"

\* lines 250-259: one pass of the loop body up to the sleep
Fetch ==
    /\ pc = "loop"
    /\ LoopCond(duration, Ticks(timeout))
    /\ NFetch < MaxFetch
    /\ events' = Append(events, "fetch")
    /\ fetch_ids' = fetch_ids \cup {exec_id}
    /\ \E lat \in 0..MaxLatency : now' = now + lat
    /\ \E out \in {Raises} \cup (Status \cup {NoStatus}) :
        IF out = Raises
        THEN /\ FetchFails
             /\ UNCHANGED <<execution, exec_status, responses>>
        ELSE /\ execution' = Execution(exec_id, out, NFetch + 1)
             /\ responses' = Append(responses, execution')
             /\ LET st == StatusLookup(execution')
                    missing == st = NoStatus
                IN  /\ exec_status' = IF missing THEN exec_status ELSE st
                    /\ IF missing /\ GraceRetry(duration)
                       THEN /\ pc' = "loop"
                            /\ how' = how
                       ELSE IF exec_status' = Unbound
                       THEN /\ pc' = "raised"
                            /\ how' = "unbound exec_status"
                       ELSE IF IsCompleted(exec_status')
                       THEN /\ pc' = "ret"
                            /\ how' = "break"
                       ELSE /\ pc' = "sleep"
                            /\ how' = how
    /\ UNCHANGED <<timeout, interval, start, duration, exec_id, submitted,
                   result>>
    /\ UNCHANGED <<envVars, jobIdVars, facadeVars, clientVars, poolVars>>

\* lines 261-262: time.sleep(interval); duration = time.time() - start
Sleep ==
    /\ pc = "sleep"
    /\ \E over \in 0..MaxOversleep : now' = now + Ticks(interval) + over
    /\ duration' = now' - start
    /\ events' = Append(events, "sleep")
    /\ pc' = "loop"
    /\ UNCHANGED <<timeout, interval, start, execution, exec_id, exec_status,
                   submitted, responses, fetch_ids, result, how>>
    /\ UNCHANGED <<envVars, jobIdVars, facadeVars, clientVars, poolVars>>

\* line 250: the loop test fails
LoopExit ==
    /\ pc = "loop"
    /\ ~LoopCond(duration, Ticks(timeout))
    /\ pc' = "ret"
    /\ how' = "timeout"
    /\ UNCHANGED <<timeout, interval, now, start, duration, execution,
                   exec_id, exec_status, submitted, responses, events,
                   fetch_ids, result>>
    /\ UNCHANGED <<envVars, jobIdVars, facadeVars, clientVars, poolVars>>

\* line 264
Return ==
    /\ pc = "ret"
    /\ result' = ReturnValue
    /\ events' = Append(events, "return")
    /\ pc' = "done"
    /\ UNCHANGED <<timeout, interval, now, start, duration, execution,
                   exec_id, exec_status, submitted, responses, fetch_ids,
                   how>>
    /\ UNCHANGED <<envVars, jobIdVars, facadeVars, clientVars, poolVars>>

Next == Submit \/ Fetch \/ Sleep \/ LoopExit \/ Return

Spec == Init /\ [][Next]_allVars

TypeOK ==
    /\ pc \in {"start", "loop", "sleep", "ret", "done", "raised"}
    /\ timeout \in Timeouts
    /\ interval \in Intervals
    /\ now \in Nat /\ start \in Nat /\ duration \in Nat
    /\ exec_status \in Status \cup {Unbound}
    /\ Len(responses) <= MaxFetch
(* ======================= properties of run_job ========================= *)
\* the terminal statuses as the specification lists them
TerminalStatuses == {"succeeded", "failed", "aborted"}

\* the statuses of the status responses received so far, in order
StatusesOf(rs) == [i \in 1..Len(rs) |-> rs[i].status]

\* number of places where a status fetch directly follows a status fetch
\* (the earlier one was retried without a sleep)
SleepFreeRetries ==
    Cardinality({i \in 1..(Len(events) - 1) :
                    events[i] = "fetch" /\ events[i + 1] = "fetch"})

\* C1: a status response of succeeded, failed or aborted is the last one:
\* polling has stopped on it, nothing but the return follows the fetch, and the
\* execution returned is that response; the loop is never left by a break on
\* any other status.
C1_TerminalStopsPolling ==
    /\ \A i \in 1..Len(responses) :
          responses[i].status \in TerminalStatuses =>
              /\ i = Len(responses)
              /\ how = "break"
              /\ \/ pc = "ret" /\ Last(events) = "fetch"
                 \/ /\ pc = "done"
                    /\ Last(events) = "return"
                    /\ events[Len(events) - 1] = "fetch"
                    /\ result = responses[i]
    /\ how = "break" =>
          /\ responses # <<>>
          /\ Last(responses).status \in TerminalStatuses

C1_Witness ==
    /\ pc = "done"
    /\ how = "break"
    /\ Len(responses) >= 2
    /\ NSleep >= 1
    /\ result.status = ABORTED

\* C2: when the loop is left because duration reached the timeout after at
\* least one status fetch, run_job goes on to return (it does not raise) and
\* returns the execution of the last status fetch, which is not terminal.
C2_TimeoutReturnsLastFetch ==
    /\ [](how = "timeout" /\ timeout > 0 =>
            /\ pc \in {"ret", "done"}
            /\ responses # <<>>
            /\ Last(responses).status \notin TerminalStatuses
            /\ pc = "done" => /\ result = Last(responses)
                              /\ result.seq = NFetch)
    /\ [][pc = "loop" /\ duration >= Ticks(timeout)
              => pc' = "ret" /\ how' = "timeout"]_vars
    /\ [][pc = "ret" => pc' = "done"]_vars

C2_Witness ==
    /\ pc = "done"
    /\ how = "timeout"
    /\ Len(responses) >= 2
    /\ result = Last(responses)

\* C3 (as claimed): a status-less first response is retried at once with
\* duration still 0 and no sleep, and at most one fetch of a run_job call is
\* retried without a sleep.
C3_GraceRetryOneShot ==
    /\ (StatusesOf(responses) = <<NoStatus>> /\ NFetch = 1) =>
          /\ pc = "loop"
          /\ duration = 0
          /\ NSleep = 0
    /\ SleepFreeRetries <= 1

\* C4: a status-less response received when duration > 0 takes the sleep
\* path: no return, no exception, then the sleep and the recomputation of
\* duration, and back to the loop test.
C4_LateMissingStatusSleeps ==
    /\ [][(/\ pc = "loop"
           /\ duration > 0
           /\ Len(responses') = Len(responses) + 1
           /\ Last(responses').status = NoStatus)
          => (pc' = "sleep" /\ how' = how /\ exec_status' = exec_status)]_vars
    /\ [][pc = "sleep" =>
            /\ pc' = "loop"
            /\ now' >= now + Ticks(interval)
            /\ duration' = now' - start
            /\ NSleep' = NSleep + 1]_vars

C4_Witness ==
    /\ pc = "loop"
    /\ duration > 0
    /\ responses # <<>>
    /\ Last(responses).status = NoStatus
    /\ Last(events) = "sleep"

\* C5: the submission is issued once and never again; when it raised (no
\* execution was obtained) run_job has raised with no status fetch and no
\* sleep.
C5_SubmitOnceNoRetry ==
    /\ NSubmit <= 1
    /\ pc # "start" => NSubmit = 1
    /\ (NSubmit >= 1 /\ submitted = NoExecution) =>
          /\ pc = "raised"
          /\ NFetch = 0
          /\ NSleep = 0
          /\ fetch_ids = {}

C5_Witness ==
    /\ pc = "raised"
    /\ NSubmit = 1
    /\ submitted = NoExecution
    /\ timeout > 0

\* C6: when the execution obtained from the submission has no id, run_job
\* has raised and no status fetch was issued.
C6_NoIdNoPolling ==
    (submitted # NoExecution /\ submitted.id = NoId) =>
        /\ pc = "raised"
        /\ NFetch = 0
        /\ NSleep = 0
        /\ fetch_ids = {}

C6_Witness ==
    /\ submitted # NoExecution
    /\ submitted.id = NoId
    /\ pc = "raised"
    /\ timeout > 0

\* C7: with timeout <= 0 there is never a status fetch nor a sleep; once the
\* submission has produced an execution with an id run_job does not raise,
\* and what it returns is that execution.
C7_NonPositiveTimeoutUnpolled ==
    timeout <= 0 =>
        /\ NFetch = 0
        /\ NSleep = 0
        /\ responses = <<>>
        /\ (submitted # NoExecution /\ submitted.id # NoId) => pc # "raised"
        /\ pc \in {"ret", "done"} => NSubmit = 1 /\ how = "timeout"
        /\ pc = "done" => result = submitted /\ result.seq = 0

C7_Witness ==
    /\ timeout = 0
    /\ pc = "done"
    /\ result = submitted
    /\ events = <<"submit", "return">>

\* C8: a status fetch that raised was the last thing run_job did: it has
\* raised, and no fetch, sleep or return follows the failing fetch.
C8_FetchFailurePropagates ==
    NFetch # Len(responses) =>
        /\ NFetch = Len(responses) + 1
        /\ pc = "raised"
        /\ Last(events) = "fetch"
        /\ result = NoExecution

C8_Witness ==
    /\ pc = "raised"
    /\ NFetch = Len(responses) + 1
    /\ NFetch >= 2
    /\ NSleep >= 1

\* C9: when the (k+1)-th status response is the first terminal one, run_job
\* makes exactly k+1 status fetches and returns the (k+1)-th execution; it
\* does not stop on a non-terminal one before that unless the timeout is
\* reached.  [pending, pending, succeeded] with interval 0: 3 fetches, and
\* the succeeded execution is returned.
C9_FetchCount ==
    /\ \A i \in 1..Len(responses) :
          responses[i].status \in TerminalStatuses =>
              /\ NFetch = i
              /\ Len(responses) = i
              /\ pc = "done" => result = responses[i] /\ result.seq = i
    /\ (pc \in {"ret", "done"} /\ duration < Ticks(timeout)) =>
          /\ responses # <<>>
          /\ Last(responses).status \in TerminalStatuses
    /\ (/\ StatusesOf(responses) = <<PENDING, PENDING, SUCCEEDED>>
        /\ interval = 0
        /\ pc = "done") =>
          /\ NFetch = 3
          /\ result.status = SUCCEEDED
          /\ result.seq = 3

C9_Witness ==
    /\ StatusesOf(responses) = <<PENDING, PENDING, SUCCEEDED>>
    /\ interval = 0
    /\ pc = "done"
    /\ NFetch = 3
    /\ result.status = SUCCEEDED

\* C10: for the responses [no status, running, failed] the events of the
\* call are submit, fetch, fetch, sleep, fetch, return: the first fetch is
\* retried with duration still 0 and no sleep, the running one is followed by
\* one sleep, and the failed execution is returned with no sleep after it.
C10_GraceScenarioTrace ==
    /\ (StatusesOf(responses) = <<NoStatus>> /\ NFetch = 1) =>
          /\ events = <<"submit", "fetch">>
          /\ pc = "loop"
          /\ duration = 0
    /\ (StatusesOf(responses) = <<NoStatus, RUNNING>> /\ NFetch = 2) =>
          /\ pc \in {"sleep", "loop", "ret", "done"}
          /\ pc = "sleep" => events = <<"submit", "fetch", "fetch">>
    /\ (StatusesOf(responses) = <<NoStatus, RUNNING, FAILED>> /\ pc = "done") =>
          /\ events = <<"submit", "fetch", "fetch", "sleep", "fetch", "return">>
          /\ NFetch = 3
          /\ NSleep = 1
          /\ result = responses[3]
          /\ result.status = FAILED

C10_Witness ==
    /\ StatusesOf(responses) = <<NoStatus, RUNNING, FAILED>>
    /\ pc = "done"
    /\ NSleep = 1
    /\ result.status = FAILED
\* ceil(a / b) for b > 0
CeilDiv(a, b) == (a + b - 1) \div b

\* the submission produced an execution with an id and every status fetch
\* so far returned an execution carrying a non-terminal status
OnlyNonTerminalResponses ==
    /\ submitted.id # NoId
    /\ NFetch = Len(responses)
    /\ \A i \in 1..Len(responses) :
          responses[i].status \in Status \ TerminalStatuses

\* C11: with timeout > 0, interval > 0 and only non-terminal statuses
\* returned, run_job never makes more than ceil(timeout / interval) status
\* fetches and does not raise; when it has returned it left the loop by the
\* timeout, the value returned is the last execution fetched, and with
\* fetches that took no time and sleeps that took just the time asked for
\* the number of fetches is exactly ceil(timeout / interval).
C11_TimeoutBoundsFetches ==
    (timeout > 0 /\ interval > 0 /\ OnlyNonTerminalResponses) =>
        /\ NFetch <= CeilDiv(timeout, interval)
        /\ pc # "raised"
        /\ how # "break"
        /\ pc = "done" =>
              /\ how = "timeout"
              /\ result = Last(responses)
              /\ result.status \notin TerminalStatuses
              /\ now = NSleep * Ticks(interval)
                    => NFetch = CeilDiv(timeout, interval)

C11_Witness ==
    /\ timeout = 3
    /\ interval = 2
    /\ OnlyNonTerminalResponses
    /\ pc = "done"
    /\ now = NSleep * Ticks(interval)
    /\ NFetch = 2
    /\ result = Last(responses)
\* C30: the execution returned is that of the most recent status fetch, or
\* the submission's when no fetch was made; every status fetch used the id
\* of the submission's execution; the loop is left early only on a terminal
\* status of the execution returned, and a status kept from an earlier pass
\* is never terminal while the loop goes on.
C30_ReturnsLatestFetch ==
    /\ pc = "done" =>
          /\ result = IF responses = <<>> THEN submitted ELSE Last(responses)
          /\ how \in {"break", "timeout"}
          /\ how = "break" => /\ duration < Ticks(timeout)
                              /\ result.status \in TerminalStatuses
          /\ how = "timeout" => duration >= Ticks(timeout)
    /\ fetch_ids \subseteq {submitted.id}
    /\ \A i \in 1..Len(responses) : responses[i].id = submitted.id
    /\ exec_status \in TerminalStatuses =>
          /\ pc \in {"ret", "done"}
          /\ Last(responses).status = exec_status

\* a break on the third response, after a status-less second one whose
\* pass went on with the status kept from the first
C30_Witness ==
    /\ pc = "done"
    /\ how = "break"
    /\ Len(responses) = 3
    /\ responses[1].status = RUNNING
    /\ responses[2].status = NoStatus
    /\ result = responses[3]
    /\ result.status = SUCCEEDED
    /\ fetch_ids = {submitted.id}

(* -------------------- run_job running to its end ----------------------- *)
\* The same call with timeout > 0 and interval > 0, without the record of
\* fetches and responses, so that a call that polls for ever is a cycle of
\* states: a status fetch takes no time (the clock advances on sleeps only)
\* and the number of a status response is counted modulo MaxFetch.
FairInit == Init /\ timeout > 0 /\ interval > 0

\* lines 250-259: one pass of the loop body up to the sleep
Poll ==
    /\ pc = "loop"
    /\ LoopCond(duration, Ticks(timeout))
    /\ fetch_ids' = fetch_ids \cup {exec_id}
    /\ \E out \in {Raises} \cup (Status \cup {NoStatus}) :
        IF out = Raises
        THEN /\ FetchFails
             /\ UNCHANGED <<execution, exec_status>>
        ELSE /\ execution' = Execution(exec_id, out,
                                       1 + (execution.seq % MaxFetch))
             /\ LET st == StatusLookup(execution')
                    missing == st = NoStatus
                IN  /\ exec_status' = IF missing THEN exec_status ELSE st
                    /\ IF missing /\ GraceRetry(duration)
                       THEN /\ pc' = "loop"
                            /\ how' = how
                       ELSE IF exec_status' = Unbound
                       THEN /\ pc' = "raised"
                            /\ how' = "unbound exec_status"
                       ELSE IF IsCompleted(exec_status')
                       THEN /\ pc' = "ret"
                            /\ how' = "break"
                       ELSE /\ pc' = "sleep"
                            /\ how' = how
    /\ UNCHANGED <<timeout, interval, now, start, duration, exec_id,
                   submitted, responses, events, result>>
    /\ UNCHANGED <<envVars, jobIdVars, facadeVars, clientVars, poolVars>>

FairNext == Submit \/ Poll \/ Sleep \/ LoopExit \/ Return

\* the thread that runs run_job is never suspended for ever
FairSpec == FairInit /\ [][FairNext]_allVars /\ WF_allVars(FairNext)

\* C29: with timeout > 0 and interval > 0, whatever the status responses
\* are, run_job eventually returns (or ends with the exception of a failed
\* call); it never polls for ever.
C29_EventuallyReturns == <>(pc \in {"done", "raised"})

(* ============== connection.RundeckResponse and memoize ================= *)
\* property reads explored per envelope
MaxReads == 3

\* Python values, written as strings
PyTrue == "True"
PyFalse == "False"
PyNone == "None"
AttributeError == "<AttributeError>"
\* the RundeckResponse object itself
Self == "<the envelope itself>"
\* what a transform returns for the envelope
Transformed(m) == IF m = "execution" THEN "execution(<the envelope itself>)"
                  ELSE "jobs(<the envelope itself>)"

\* bool(v) for the values above
Truthy(v) == v \notin {PyFalse, PyNone}

\* how a <success> or <error> child of the root occurs in a body: not at
\* all, without a <message> child, or with the text of its <message>
Absent == "<absent>"
NoMessage == "<no message child>"
MessageTexts == {"Job deleted", "No such job"}
ElementStates == {Absent, NoMessage} \cup MessageTexts
\* the apiversion attribute of the root
ApiVersionAttrs == {Absent, "11"}
\* the as_dict_method argument of the constructor
AsDictMethods == {PyNone, "execution"}

\* RundeckResponse.__init__: the parsed body, and _as_dict_method set to
\* None whatever as_dict_method was given (kept here as "given")
RundeckResponse(succAttr, succEl, errEl, ver, method) ==
    [success_attr |-> succAttr, success_el |-> succEl, error_el |-> errEl,
     apiversion |-> ver, given |-> method, as_dict_method |-> PyNone]

Envelopes ==
    {RundeckResponse(a, s, e, v, m) :
        a \in BOOLEAN, s \in ElementStates, e \in ElementStates,
        v \in ApiVersionAttrs, m \in AsDictMethods}

Properties == {"api_version", "success", "message", "as_dict"}

\* the functions under @property @memoize
as_dict_fn(e) ==
    IF e.as_dict_method = PyNone THEN PyNone ELSE Transformed(e.as_dict_method)
api_version_fn(e) == IF e.apiversion = Absent THEN "-1" ELSE e.apiversion
success_fn(e) == IF e.success_attr THEN PyTrue ELSE PyFalse

\* memoize(obj) returns wraps(memoizer), that is
\* partial(update_wrapper, wrapped=memoizer): called with the envelope it
\* returns the envelope, and neither memoizer nor obj runs.  "computed" is
\* what obj would return; "runs" is the number of runs of obj.
memoizeNoCache(self, computed) == [value |-> computed, runs |-> 1]
memoize(self, computed) == [value |-> self, runs |-> 0]

message_fn(e) ==
    LET term == IF Truthy(memoize(Self, success_fn(e)).value)
                THEN "success" ELSE "error"
        message_el == IF term = "success" THEN e.success_el ELSE e.error_el
    IN  IF message_el = Absent THEN term
        ELSE IF message_el = NoMessage THEN AttributeError
        ELSE message_el

Wrapped(e, p) ==
    CASE p = "api_version" -> api_version_fn(e)
      [] p = "success" -> success_fn(e)
      [] p = "message" -> message_fn(e)
      [] p = "as_dict" -> as_dict_fn(e)

\* the value of envelope.p and the runs of the wrapped function it caused
PropertyRead(e, p) == memoize(Self, Wrapped(e, p))

NotCalled == [outcome |-> "not called", msg |-> PyNone, response |-> PyNone]

EnvelopeInit ==
    /\ env \in Envelopes
    /\ reads = <<>>
    /\ ran = [p \in Properties |-> 0]
    /\ rfe = NotCalled
    /\ PollerIdle /\ JobIdIdle /\ FacadeIdle /\ ClientIdle /\ PoolIdle

\* a read of one of the derived properties
Read ==
    /\ Len(reads) < MaxReads
    /\ \E p \in Properties :
        LET r == PropertyRead(env, p)
        IN  /\ reads' = Append(reads, [prop |-> p, value |-> r.value])
            /\ ran' = [ran EXCEPT ![p] = @ + r.runs]
    /\ UNCHANGED <<env, rfe>>
    /\ UNCHANGED <<vars, jobIdVars, facadeVars, clientVars, poolVars>>

\* raise_for_error(msg), lines 84-89
RaiseForError ==
    /\ rfe = NotCalled
    /\ \E arg \in {PyNone, "custom message"} :
        LET m == PropertyRead(env, "message")
            msg == IF arg = PyNone THEN m.value ELSE arg
            mruns == IF arg = PyNone THEN m.runs ELSE 0
            su == PropertyRead(env, "success")
        IN  /\ rfe' = IF msg = AttributeError
                      THEN [outcome |-> "AttributeError", msg |-> PyNone,
                            response |-> PyNone]
                      ELSE IF ~Truthy(su.value)
                      THEN [outcome |-> "RundeckServerError", msg |-> msg,
                            response |-> Self]
                      ELSE [outcome |-> "returned", msg |-> arg,
                            response |-> PyNone]
            /\ ran' = [ran EXCEPT !["message"] = @ + mruns,
                                  !["success"] = @ + su.runs]
    /\ UNCHANGED <<env, reads>>
    /\ UNCHANGED <<vars, jobIdVars, facadeVars, clientVars, poolVars>>

EnvelopeNext == Read \/ RaiseForError

EnvelopeSpec == EnvelopeInit /\ [][EnvelopeNext]_allVars

(* -------------------- properties of RundeckResponse -------------------- *)
\* the message the specification gives an envelope: the text of the
\* <message> of <success> (of <error> when the root has no success
\* attribute), and the literal "success" ("error") when it is missing
SpecMessage(e) ==
    LET term == IF e.success_attr THEN "success" ELSE "error"
        el == IF e.success_attr THEN e.success_el ELSE e.error_el
    IN  IF el \in MessageTexts THEN el ELSE term

\* C12 (as claimed): on an envelope whose root has the success attribute
\* every read of success gives true and every read of message gives the text
\* of <success><message>, or "success" when that element is missing.
C12_SuccessEnvelope ==
    env.success_attr =>
        \A i \in 1..Len(reads) :
            /\ reads[i].prop = "success" => reads[i].value = PyTrue
            /\ reads[i].prop = "message" => reads[i].value = SpecMessage(env)

\* C13 (as claimed): on an envelope whose root has no success attribute
\* every read of success gives false and every read of message gives the
\* text of <error><message>, or "error" when that element is missing.
C13_ErrorEnvelope ==
    ~env.success_attr =>
        \A i \in 1..Len(reads) :
            /\ reads[i].prop = "success" => reads[i].value = PyFalse
            /\ reads[i].prop = "message" => reads[i].value = SpecMessage(env)

\* C14 (as claimed): raise_for_error returns normally on an envelope with
\* the success attribute, and on any other envelope raises RundeckServerError
\* with the given message, else the envelope's message, and the envelope.
C14_RaiseForError ==
    rfe # NotCalled =>
        IF env.success_attr
        THEN rfe.outcome = "returned"
        ELSE /\ rfe.outcome = "RundeckServerError"
             /\ rfe.response = Self
             /\ rfe.msg \in {"custom message", SpecMessage(env)}

\* C15: all reads of one property of an envelope give the same value, and
\* the function under the property has run at most once.
C15_ReadsRepeatable ==
    /\ \A i, j \in 1..Len(reads) :
          reads[i].prop = reads[j].prop => reads[i].value = reads[j].value
    /\ \A p \in Properties : ran[p] <= 1

C15_Witness ==
    /\ Len(reads) = 3
    /\ reads[1].prop = "message"
    /\ reads[2].prop = "message"
    /\ reads[3].prop = "message"
    /\ rfe # NotCalled

\* C16 (as claimed): as_dict is what the transform given to the constructor
\* returns for the envelope, and None exactly when none was given.
C16_AsDictIsTransform ==
    \A i \in 1..Len(reads) :
        reads[i].prop = "as_dict" =>
            reads[i].value = IF env.given = PyNone THEN PyNone
                             ELSE Transformed(env.given)
(* ========================= client.is_job_id ============================ *)
\* strings are sequences of one-character strings
\* string.ascii_letters and string.digits
ascii_letters ==
    <<"a", "b", "c", "d", "e", "f", "g", "h", "i", "j", "k", "l", "m",
      "n", "o", "p", "q", "r", "s", "t", "u", "v", "w", "x", "y", "z",
      "A", "B", "C", "D", "E", "F", "G", "H", "I", "J", "K", "L", "M",
      "N", "O", "P", "Q", "R", "S", "T", "U", "V", "W", "X", "Y", "Z">>
digits == <<"0", "1", "2", "3", "4", "5", "6", "7", "8", "9">>

\* _JOB_TO_CHARS = ascii_letters + digits
JOB_TO_CHARS_LettersOnly == ascii_letters
JOB_TO_CHARS == ascii_letters \o digits

\* '#' * n
Repeat(c, n) == [i \in 1..n |-> c]

\* _JOB_TO_TRANS_TAB = maketrans(_JOB_TO_CHARS, '#' * len(_JOB_TO_CHARS)):
\* the i-th character of the first string goes to the i-th of the second
JOB_TO_TRANS_TAB ==
    LET to == Repeat("#", Len(JOB_TO_CHARS))
    IN  [c \in {JOB_TO_CHARS[i] : i \in 1..Len(JOB_TO_CHARS)} |->
            to[CHOOSE i \in 1..Len(JOB_TO_CHARS) : JOB_TO_CHARS[i] = c]]

\* _JOB_ID_TEMPLATE = '########-####-####-####-############'
JOB_ID_TEMPLATE ==
    Repeat("#", 8) \o <<"-">> \o Repeat("#", 4) \o <<"-">> \o Repeat("#", 4)
    \o <<"-">> \o Repeat("#", 4) \o <<"-">> \o Repeat("#", 12)

\* str.translate(table): a character the table has is replaced, any other
\* is kept
translate(str, table) ==
    [i \in 1..Len(str) |->
        IF str[i] \in DOMAIN table THEN table[str[i]] ELSE str[i]]

\* an argument of is_job_id: its type, its truth value and, for a string,
\* its characters
Str(chars) == [type |-> "str", truthy |-> chars # <<>>, chars |-> chars]
NonStr(type, truthy) == [type |-> type, truthy |-> truthy, chars |-> <<>>]

\* is_job_id, lines 49-61
is_job_id(arg) ==
    IF arg.truthy /\ arg.type = "str"
    THEN IF translate(arg.chars, JOB_TO_TRANS_TAB) = JOB_ID_TEMPLATE
         THEN PyTrue ELSE PyFalse
    ELSE PyFalse

\* the arguments tried: the two names of the specification, the template,
\* every prefix of the UUID, the UUID with one more character, the UUID with
\* any one character replaced, and values that are not strings
SampleUuid ==
    <<"5", "5", "0", "e", "8", "4", "0", "0", "-", "e", "2", "9", "b",
      "-", "4", "1", "d", "4", "-", "a", "7", "1", "6", "-", "4", "4",
      "6", "6", "5", "5", "4", "4", "0", "0", "0", "0">>
NightlyBackup == <<"n", "i", "g", "h", "t", "l", "y", "-", "b", "a", "c", "k", "u", "p">>
\* "e-acute" stands for the one non-ASCII letter
ProbeChars == {"a", "Z", "7", "-", "#", "_", " ", "e-acute"}
JobIdArgs ==
    {Str(SampleUuid), Str(NightlyBackup), Str(JOB_ID_TEMPLATE)}
    \cup {Str(SubSeq(SampleUuid, 1, n)) : n \in 0..Len(SampleUuid)}
    \cup {Str(Append(SampleUuid, c)) : c \in ProbeChars}
    \cup {Str([SampleUuid EXCEPT ![i] = c]) :
            i \in 1..Len(SampleUuid), c \in ProbeChars}
    \cup {NonStr("NoneType", FALSE), NonStr("int", FALSE),
          NonStr("int", TRUE), NonStr("bytes", TRUE), NonStr("list", TRUE)}

JobIdInit ==
    /\ job_id \in JobIdArgs
    /\ job_id_result = "<not called>"
    /\ PollerIdle /\ EnvelopeIdle /\ FacadeIdle /\ ClientIdle /\ PoolIdle

IsJobId ==
    /\ job_id_result = "<not called>"
    /\ job_id_result' = is_job_id(job_id)
    /\ UNCHANGED job_id
    /\ UNCHANGED <<vars, envVars, facadeVars, clientVars, poolVars>>

JobIdNext == IsJobId

JobIdSpec == JobIdInit /\ [][JobIdNext]_allVars

(* ----------------------- properties of is_job_id ----------------------- *)
\* the ASCII letters and digits
AsciiAlnum ==
    {"0", "1", "2", "3", "4", "5", "6", "7", "8", "9", "A", "B", "C",
     "D", "E", "F", "G", "H", "I", "J", "K", "L", "M", "N", "O", "P",
     "Q", "R", "S", "T", "U", "V", "W", "X", "Y", "Z", "a", "b", "c",
     "d", "e", "f", "g", "h", "i", "j", "k", "l", "m", "n", "o", "p",
     "q", "r", "s", "t", "u", "v", "w", "x", "y", "z"}

\* the string with every ASCII letter and digit replaced by '#' reads
\* ########-####-####-####-############
MatchesTemplate(chars) ==
    /\ Len(chars) = 36
    /\ \A i \in 1..Len(chars) :
          (IF chars[i] \in AsciiAlnum THEN "#" ELSE chars[i])
              = (IF i \in {9, 14, 19, 24} THEN "-" ELSE "#")

\* C17: is_job_id gives true exactly for a non-empty string that matches
\* the template after the replacement; true for the sample UUID, false for
\* 'nightly-backup', the empty string, None and values that are not strings.
C17_IsJobId ==
    job_id_result # "<not called>" =>
        /\ job_id_result = PyTrue <=>
              /\ job_id.type = "str"
              /\ job_id.chars # <<>>
              /\ MatchesTemplate(job_id.chars)
        /\ job_id_result \in {PyTrue, PyFalse}
        /\ job_id = Str(SampleUuid) => job_id_result = PyTrue
        /\ job_id = Str(NightlyBackup) => job_id_result = PyFalse
        /\ job_id = Str(<<>>) => job_id_result = PyFalse
        /\ job_id.type # "str" => job_id_result = PyFalse

C17_Witness ==
    /\ job_id = Str(SampleUuid)
    /\ job_id_result = PyTrue

\* structurally a UUID: 36 characters, hyphens at positions 9, 14, 19 and
\* 24, an ASCII letter or digit at every other position
StructurallyUuid(chars) ==
    /\ Len(chars) = 36
    /\ \A i \in 1..Len(chars) :
          IF i \in {9, 14, 19, 24} THEN chars[i] = "-"
          ELSE chars[i] \in AsciiAlnum

\* C28: every string is_job_id accepts is structurally a UUID; no string
\* with the placeholder character '#' in it is accepted.
C28_AcceptedIsUuid ==
    job_id_result = PyTrue =>
        /\ job_id.type = "str"
        /\ StructurallyUuid(job_id.chars)
        /\ \A i \in 1..Len(job_id.chars) : job_id.chars[i] # "#"

(* ---------------- api.RundeckApiTolerant and RundeckApi ----------------- *)
\* One call of one api method on a connection of API version api_version,
\* strict (RundeckConnection) or not (RundeckConnectionTolerant).  The
\* server answers each request with an HTTP status and a well-formed body,
\* whose root has the success attribute or not.
RUNDECK_API_VERSION == 11
GET == "get"
POST == "post"
DELETE == "delete"

\* the HTTP statuses the server answers with
HttpStatuses == {200, 304, 404}
\* the server's answer to a request: the status and whether the root of
\* the body has the success attribute
Answers == [status : HttpStatuses, success_attr : BOOLEAN]

\* the api methods
Operations ==
    {"system_info", "jobs", "project_jobs", "job_run", "jobs_export",
     "jobs_import", "job", "delete_job", "jobs_delete", "job_executions",
     "executions_running", "executions", "execution_output",
     "execution_abort", "run_command", "run_script", "run_url",
     "_post_projects", "_get_projects", "project", "project_resources",
     "project_resources_update", "project_resources_refresh", "history"}

\* keyword names tried in a call: two options some methods recognise,
\* project's create, the parameters of _exec and of connection.call (method
\* and url, params, data and parse_response of _exec, headers and files of
\* call), the one name RundeckConnection.request takes besides the request
\* parts, and a name nothing takes
ProbeNames ==
    {"scriptInterpreter", "jobExactFilter", "create", "quiet", "timeout",
     "method", "url", "params", "data", "parse_response", "headers", "files"}

\* the values tried: a bool for a switch; "x" for any other name, which
\* for params, headers and files is a dict with an entry and for data a
\* payload, a str
OptionValues(n) ==
    IF n \in {"create", "quiet", "parse_response"} THEN {PyTrue, PyFalse}
    ELSE {"x"}

\* the greatest number of keyword arguments in a call
MaxKwargs == 2

\* the keyword arguments of a call: a value for each name of some subset
Kwargs ==
    UNION {{f \in [S -> {PyTrue, PyFalse, "x"}] :
                \A n \in S : f[n] \in OptionValues(n)} :
           S \in {T \in SUBSET ProbeNames : Cardinality(T) <= MaxKwargs}}

Restrict(f, S) == [n \in (DOMAIN f \cap S) |-> f[n]]

\* the outcomes of a call
Returned == [kind |-> "returned", version |-> 0]
NotImplementedError(required_version) ==
    [kind |-> "NotImplementedError", version |-> required_version]
TypeError == [kind |-> "TypeError", version |-> 0]
ValueError == [kind |-> "ValueError", version |-> 0]
HTTPError == [kind |-> "HTTPError", version |-> 0]
RundeckServerError == [kind |-> "RundeckServerError", version |-> 0]

\* TRUE when api_version_check raises NotImplementedError
api_version_check(version, required_version) == version < required_version

\* cull_kwargs: the api_keys found in kwargs are popped out of it
cull_kwargs(api_keys, kwargs) ==
    [params |-> Restrict(kwargs, api_keys),
     kwargs |-> Restrict(kwargs, DOMAIN kwargs \ api_keys)]

NodeFilterKeys ==
    {"hostname", "tags", "os-name", "os-family", "os-arch", "os-version",
     "name", "exclude-hostname", "exclude-tags", "exclude-os-name",
     "exclude-os-family", "exclude-os-arch", "exclude-os-version",
     "exclude-name"}

\* the keys each method hands to cull_kwargs
ApiKeys(op) ==
    CASE op \in {"jobs", "project_jobs"} ->
            {"idlist", "groupPath", "jobFilter", "jobExactFilter",
             "groupPathExact"}
      [] op = "job_run" ->
            {"argString", "loglevel", "asUser", "exclude-precedence"}
                \cup NodeFilterKeys
      [] op = "jobs_export" -> {"fmt", "idlist", "groupPath", "jobFilter"}
      [] op = "jobs_import" -> {"fmt", "dupeOption", "project", "uuidOption"}
      [] op = "job" -> {"fmt"}
      [] op = "job_executions" -> {"status", "max", "offset"}
      [] op = "executions" ->
            {"statusFilter", "abortedbyFilter", "userFilter", "recentFilter",
             "begin", "end", "adhoc", "jobIdListFilter",
             "excludeJobIdListFilter", "jobListFilter",
             "excludeJobListFilter", "groupPath", "groupPathExact",
             "excludeGroupPath", "excludeGroupPathExact", "jobExactFilter",
             "excludeJobExactFilter", "max", "offset"}
      [] op = "execution_output" ->
            {"fmt", "offset", "lastlines", "lastmod", "maxlines"}
      [] op = "execution_abort" -> {"asUser"}
      [] op = "run_command" ->
            {"nodeThreadcount", "nodeKeepgoing", "asUser"}
                \cup NodeFilterKeys
      [] op \in {"run_script", "run_url"} ->
            {"argString", "nodeThreadcount", "nodeKeepgoing", "asUser",
             "scriptInterpreter", "interpreterArgsQuoted"}
                \cup NodeFilterKeys
      [] op = "project_resources" ->
            {"fmt", "scriptInterpreter", "interpreterArgsQuoted"}
                \cup NodeFilterKeys
      [] op = "history" ->
            {"jobIdFilter", "reportIdFilter", "userFilter", "startFilter",
             "jobListFilter", "excludeJobListFilter", "recentFilter",
             "begin", "end", "max", "offset"}
      [] OTHER -> {}

\* the names a method pops out of kwargs itself
Popped(op) ==
    CASE op = "project" -> {"create"}
      [] op = "_post_projects" -> {"config"}
      [] op = "execution_output" -> {"parse_response"}
      [] OTHER -> {}

\* the version a method requires on entry (0: it requires none)
EntryVersion(op) ==
    CASE op = "executions" -> 5
      [] op = "run_url" -> 4
      [] op = "_post_projects" -> 11
      [] op \in {"project_resources", "project_resources_refresh"} -> 2
      [] op = "history" -> 4
      [] OTHER -> 0

\* the version a method requires for the options culled into params
OptionVersion(op, params) ==
    IF /\ op \in {"run_script", "run_url"}
       /\ {"scriptInterpreter", "interpreterArgsQuoted"} \cap DOMAIN params
              # {}
    THEN 8
    ELSE 0

HttpMethod(op) ==
    CASE op \in {"jobs_import", "jobs_delete", "run_script", "run_url",
                 "_post_projects", "project_resources_update",
                 "project_resources_refresh"} -> POST
      [] op = "delete_job" -> DELETE
      [] OTHER -> GET

Url(op) ==
    CASE op = "system_info" -> "system/info"
      [] op = "job_run" -> "job/{0}/run"
      [] op = "jobs_export" -> "jobs/export"
      [] op = "jobs_import" -> "jobs/import"
      [] op \in {"job", "delete_job"} -> "job/{0}"
      [] op = "jobs_delete" -> "jobs/delete"
      [] op = "job_executions" -> "job/{0}/executions"
      [] op = "executions_running" -> "executions/running"
      [] op = "executions" -> "executions"
      [] op = "execution_output" -> "execution/{0}/output"
      [] op = "execution_abort" -> "execution/{0}/abort"
      [] op = "run_command" -> "run/command"
      [] op = "run_script" -> "run/script"
      [] op = "run_url" -> "run/url"
      [] op \in {"_post_projects", "_get_projects"} -> "projects"
      [] op = "project" -> "project/{0}"
      [] op \in {"project_resources", "project_resources_update"} ->
            "project/{0}/resources"
      [] op = "project_resources_refresh" -> "project/{0}/resources/refresh"
      [] op = "history" -> "history"
      [] OTHER -> "jobs"

\* the keywords each method gives in its call of _exec, after the
\* positional method and url and before **kwargs
ExplicitKeywords(op) ==
    CASE op \in {"jobs", "project_jobs", "job_run", "job_executions",
                 "executions_running", "executions", "execution_abort",
                 "run_command", "project_resources", "history"} -> {"params"}
      [] op \in {"jobs_export", "job", "execution_output"} ->
            {"params", "parse_response"}
      [] op = "delete_job" -> {"parse_response"}
      [] op \in {"jobs_import", "jobs_delete", "run_url",
                 "project_resources_refresh"} -> {"data"}
      [] op = "run_script" -> {"params", "files"}
      [] op \in {"_post_projects", "project_resources_update"} ->
            {"data", "headers"}
      [] OTHER -> {}

\* the data that are a str: the payload a caller gives, and the XML that
\* _post_projects and project_resources_update build; the data the other
\* methods build is a dict
StrData == {"x", "<str built by the method>"}

\* the keywords of a method's call of _exec with their values: what the
\* method built, and for parse_response False, or in execution_output the
\* parse_response popped out of kwargs, False when there was none
Explicit(op, kwargs) ==
    [n \in ExplicitKeywords(op) |->
        IF n = "parse_response"
        THEN (IF op = "execution_output" /\ n \in DOMAIN kwargs
              THEN kwargs[n] ELSE PyFalse)
        ELSE IF n = "data"
                /\ op \in {"_post_projects", "project_resources_update"}
        THEN "<str built by the method>"
        ELSE "<built by the method>"]

\* the keyword names request takes besides method, url and the request
\* parts params, headers, data and files, which call passes itself
AcceptedAnything(isStrict) == ProbeNames
Accepted(isStrict) == IF isStrict THEN {"quiet"} ELSE {}

\* a call that ends before connection.request is invoked
Rejected(error) == [outcome |-> error, sent |-> <<>>, handed |-> NotHanded]

\* response.raise_for_status() of the requests library: TRUE when it raises
\* HTTPError, which it does for the client and server error statuses
raise_for_statusNon2xx(status) == status \notin 200..299
raise_for_status(status) == status \in 400..599

\* self.request(method, url, params=..., ..., **kwargs) of the connection's
\* class: a keyword request does not take is a TypeError at the call of
\* request; self.http.request, of the requests library, raises ValueError
\* before it sends anything when files are given and data is a str; else
\* one HTTP request is sent, and the strict request raises for an error
\* status unless quiet
request(method, url, parts, kwargs, answer) ==
    LET quiet == IF "quiet" \in DOMAIN kwargs THEN kwargs["quiet"]
                 ELSE PyFalse
        req == [method |-> method, url |-> url, status |-> answer.status,
                success_attr |-> answer.success_attr]
        given == [called |-> TRUE, kwargs |-> kwargs, parts |-> parts]
    IN  IF ~(DOMAIN kwargs \subseteq Accepted(strict))
        THEN [outcome |-> TypeError, sent |-> <<>>, handed |-> given]
        ELSE IF /\ "files" \in DOMAIN parts
                /\ "data" \in DOMAIN parts
                /\ parts["data"] \in StrData
        THEN [outcome |-> ValueError, sent |-> <<>>, handed |-> given]
        ELSE IF strict /\ quiet # PyTrue /\ raise_for_status(answer.status)
        THEN [outcome |-> HTTPError, sent |-> <<req>>, handed |-> given]
        ELSE [outcome |-> Returned, sent |-> <<req>>, handed |-> given]

\* connection.call: the keywords named params, headers, data and files
\* are its parameters and go to request as the request parts, headers
\* after headers.update(auth_header) has added the auth token to them;
\* parse_response is its parameter too and stays with it; every other
\* keyword goes to request by name
connection_call(method, url, keywords, answer) ==
    request(method, url,
            [n \in DOMAIN keywords \cap {"params", "headers", "data", "files"}
                |-> IF n = "headers"
                    THEN <<keywords[n], "X-Rundeck-Auth-Token">>
                    ELSE keywords[n]],
            Restrict(keywords,
                     DOMAIN keywords \ {"params", "headers", "data", "files",
                                        "parse_response"}),
            answer)

\* the envelope connection.call makes of a parsed response
Envelope(answer) ==
    RundeckResponse(answer.success_attr, Absent, Absent, "11", PyNone)

\* TRUE when raise_for_error() raises RundeckServerError
raise_for_error(e) == ~Truthy(PropertyRead(e, "success").value)

\* self._exec(method, url, <explicit>, **kwargs) of the api class: a name
\* in kwargs that is also given explicitly, or by position as method and
\* url are, is a TypeError at that call; params, data and parse_response
\* (True when not given) are parameters of _exec, passed on to
\* connection.call with the other keywords; RundeckApiTolerant._exec is
\* that call; RundeckApi._exec adds raise_for_error() on a parsed response
\* unless quiet
exec(method, url, explicit, kwargs, answer) ==
    LET keywords == [n \in DOMAIN explicit \cup DOMAIN kwargs |->
                        IF n \in DOMAIN explicit THEN explicit[n]
                        ELSE kwargs[n]]
        parse_response == IF "parse_response" \in DOMAIN keywords
                          THEN keywords["parse_response"]
                          ELSE PyTrue
        quiet == IF "quiet" \in DOMAIN kwargs THEN kwargs["quiet"]
                 ELSE PyFalse
        r == connection_call(method, url, keywords, answer)
    IN  IF DOMAIN kwargs \cap (DOMAIN explicit \cup {"method", "url"}) # {}
        THEN Rejected(TypeError)
        ELSE IF /\ api_class = "RundeckApi"
                /\ r.outcome = Returned
                /\ ~Truthy(quiet)
                /\ Truthy(parse_response)
                /\ raise_for_error(Envelope(answer))
        THEN [r EXCEPT !.outcome = RundeckServerError]
        ELSE r

\* project: whether the POST follows a GET that raised HTTPError
ProjectFallbackNever(create) == FALSE
ProjectFallback(create) == create = PyTrue

\* project is inside its except clause, the POST not yet sent
AwaitingPost == [kind |-> "<HTTPError caught in project>", version |-> 0]

\* project up to the answer to its GET: the call has ended, or the
\* HTTPError is caught with create in effect and the POST is to follow
project(kwargs, answer) ==
    LET given == IF "create" \in DOMAIN kwargs THEN kwargs["create"]
                 ELSE PyNone
        create == IF given = PyNone
                  THEN (IF api_version >= 11 THEN PyTrue ELSE PyFalse)
                  ELSE given
        rest == Restrict(kwargs, DOMAIN kwargs \ Popped("project"))
        first == exec(GET, Url("project"), NoKwargs, rest, answer)
    IN  IF given = PyTrue /\ api_version_check(api_version, 11)
        THEN Rejected(NotImplementedError(11))
        ELSE IF first.outcome = HTTPError /\ ProjectFallback(create)
        THEN [first EXCEPT !.outcome = AwaitingPost]
        ELSE first

\* project from the except clause on: self._exec(POST, rd_url, **kwargs)
project_post(kwargs, answer) ==
    exec(POST, Url("project"), NoKwargs,
         Restrict(kwargs, DOMAIN kwargs \ Popped("project")), answer)

\* the body of an api method up to the answer to its first request; jobs (and project_jobs through it) calls
\* cull_kwargs with one argument, a tuple of the keys and kwargs, which is
\* a TypeError
ApiMethod(op, kwargs, answer) ==
    IF op \in {"jobs", "project_jobs"}
    THEN Rejected(TypeError)
    ELSE IF op = "project"
    THEN project(kwargs, answer)
    ELSE IF api_version_check(api_version, EntryVersion(op))
    THEN Rejected(NotImplementedError(EntryVersion(op)))
    ELSE LET c == cull_kwargs(ApiKeys(op),
                              Restrict(kwargs, DOMAIN kwargs \ Popped(op)))
             required_version == OptionVersion(op, c.params)
         IN  IF api_version_check(api_version, required_version)
             THEN Rejected(NotImplementedError(required_version))
             ELSE exec(HttpMethod(op), Url(op), Explicit(op, kwargs),
                       c.kwargs, answer)

FacadeInit ==
    /\ api_version \in 1..RUNDECK_API_VERSION
    /\ strict \in BOOLEAN
    /\ api_class \in {"RundeckApi", "RundeckApiTolerant"}
    /\ call = NoCall
    /\ handed = NotHanded
    /\ sent = <<>>
    /\ outcome = NoOutcome
    /\ PollerIdle /\ EnvelopeIdle /\ JobIdIdle /\ ClientIdle /\ PoolIdle

\* one call of an api method, from entry to return or exception or, in
\* project, to the except clause that sends a second request
Call ==
    /\ call = NoCall
    /\ \E op \in Operations, kwargs \in Kwargs, answer \in Answers :
          LET r == ApiMethod(op, kwargs, answer)
          IN  /\ call' = [op |-> op, kwargs |-> kwargs]
              /\ handed' = r.handed
              /\ sent' = r.sent
              /\ outcome' = r.outcome
    /\ UNCHANGED <<api_version, strict, api_class>>
    /\ UNCHANGED <<vars, envVars, jobIdVars, clientVars, poolVars>>

\* project, line 884: the POST and the end of the call
ProjectPost ==
    /\ outcome = AwaitingPost
    /\ \E answer \in Answers :
          LET r == project_post(call.kwargs, answer)
          IN  /\ handed' = r.handed
              /\ sent' = sent \o r.sent
              /\ outcome' = r.outcome
    /\ UNCHANGED <<api_version, strict, api_class, call>>
    /\ UNCHANGED <<vars, envVars, jobIdVars, clientVars, poolVars>>

FacadeNext == Call \/ ProjectPost

FacadeSpec == FacadeInit /\ [][FacadeNext]_allVars

(* --------------------- properties of the api methods ------------------- *)
HasKey(c, n) == n \in DOMAIN c.kwargs

\* the minimum API versions that apply to a call, by method and options
RequiredVersions(c) ==
    (CASE c.op = "executions" -> {5}
       [] c.op = "run_url" -> {4}
       [] c.op = "_post_projects" -> {11}
       [] c.op \in {"project_resources", "project_resources_refresh"} -> {2}
       [] c.op = "history" -> {4}
       [] OTHER -> {})
    \cup (IF c.op \in {"run_script", "run_url"}
             /\ HasKey(c, "scriptInterpreter")
          THEN {8} ELSE {})
    \cup (IF c.op \in {"jobs", "project_jobs"} /\ HasKey(c, "jobExactFilter")
          THEN {2} ELSE {})
    \cup (IF c.op = "project" /\ HasKey(c, "create")
             /\ c.kwargs["create"] = PyTrue
          THEN {11} ELSE {})

\* C18: a call of a method with a minimum API version above the
\* connection's version fails with NotImplementedError naming a required
\* version, and no request has been sent.
C18_VersionCheckedFirst ==
    (\E v \in RequiredVersions(call) : api_version < v) =>
        /\ outcome.kind = "NotImplementedError"
        /\ outcome.version \in RequiredVersions(call)
        /\ api_version < outcome.version
        /\ sent = <<>>

\* C19 as stated: every call of an api method that gets as far as the
\* transport sends exactly one request, whatever the outcome of that one.
C19_ExactlyOneRequest ==
    (call # NoCall
        /\ outcome.kind \notin {"NotImplementedError", "TypeError", "ValueError"})
        => Len(sent) = 1

\* the call has returned or raised
Ended == call # NoCall /\ outcome # AwaitingPost

\* project's create is in effect: given as True, or not given on a
\* connection of API version 11 or higher
CreateInEffect(c) ==
    IF HasKey(c, "create") THEN c.kwargs["create"] = PyTrue
    ELSE api_version >= RUNDECK_API_VERSION

\* the request raised HTTPError: error status on a strict connection
\* without quiet=True
RaisedHTTPError(c, req) ==
    /\ strict
    /\ req.status >= 400
    /\ ~(HasKey(c, "quiet") /\ c.kwargs["quiet"] = PyTrue)

\* C19: a call sends at most one request and never retries, except that
\* project sends a POST to the same URL after its GET raised HTTPError
\* with create in effect; a call that fails with NotImplementedError,
\* TypeError or the requests library's ValueError has sent none.
C19_RequestsPerCall ==
    /\ outcome = AwaitingPost =>
          /\ call.op = "project"
          /\ Len(sent) = 1
          /\ sent[1].method = GET
          /\ RaisedHTTPError(call, sent[1])
          /\ CreateInEffect(call)
    /\ Ended =>
        /\ Len(sent) \in 0..2
        /\ Len(sent) = 0 <=>
              outcome.kind
                  \in {"NotImplementedError", "TypeError", "ValueError"}
        /\ Len(sent) = 2 <=>
              /\ Len(sent) >= 1
              /\ call.op = "project"
              /\ RaisedHTTPError(call, sent[1])
              /\ CreateInEffect(call)
        /\ Len(sent) = 2 =>
              /\ sent[1].method = GET /\ sent[2].method = POST
              /\ sent[1].url = sent[2].url

C19_Witness ==
    /\ call.op = "project"
    /\ ~HasKey(call, "create")
    /\ Len(sent) = 2
    /\ outcome = Returned

\* the keyword arguments of a call that its method does not recognise
Leftover(c) ==
    [n \in DOMAIN c.kwargs \ (ApiKeys(c.op) \cup Popped(c.op))
        |-> c.kwargs[n]]

\* the call got as far as the method's call of _exec
ReachedExec(c) ==
    /\ c # NoCall
    /\ c.op \notin {"jobs", "project_jobs"}
    /\ outcome.kind # "NotImplementedError"

\* connection.request got the keyword argument n of the call with its
\* value, by that name or as the request part of that name
ReachedRequest(c, n) ==
    \/ n \in DOMAIN handed.kwargs /\ handed.kwargs[n] = c.kwargs[n]
    \/ n \in DOMAIN handed.parts /\ handed.parts[n] = c.kwargs[n]

\* C20 as stated: the keyword arguments a method does not recognise reach
\* connection.request untouched and never make the call fail.
C20_LeftoverNeverRejected ==
    (ReachedExec(call) /\ Leftover(call) # NoKwargs) =>
        /\ handed.called
        /\ \A n \in DOMAIN Leftover(call) : ReachedRequest(call, n)
        /\ outcome.kind \notin {"TypeError", "ValueError"}
        /\ Len(sent) >= 1

\* the unrecognised names that the method's call of _exec gives itself,
\* by position or as a keyword
Clash(c) ==
    DOMAIN Leftover(c) \cap ({"method", "url"} \cup ExplicitKeywords(c.op))

\* the unrecognised keyword arguments that are not parameters of _exec or
\* connection.call
Extra(c) ==
    [n \in DOMAIN Leftover(c)
            \ {"method", "url", "params", "data", "parse_response",
               "headers", "files"}
        |-> c.kwargs[n]]

\* the call gives files together with a data that is a str, one of the two
\* at least among the unrecognised keyword arguments: the method's own files
\* (run_script) with a data payload, the method's own XML (_post_projects,
\* project_resources_update) with files, or both given by the caller
FilesWithStrData(c) ==
    /\ "files" \in DOMAIN Leftover(c) \cup ExplicitKeywords(c.op)
    /\ \/ "data" \in DOMAIN Leftover(c)
       \/ c.op \in {"_post_projects", "project_resources_update"}

\* C20: no keyword argument a method does not recognise is silently
\* dropped, and the call fails with TypeError, no request sent, exactly
\* when a name clashes with one the method gives to _exec itself (method,
\* url, or its own params, data, headers, files or parse_response) or,
\* without a clash, a name that is not a parameter of _exec or
\* connection.call is one request does not take (any but quiet on
\* RundeckConnection, any at all on RundeckConnectionTolerant).  After a
\* clash request is not invoked.  Without one, params, data and files are
\* the request parts request gets, untouched; headers is the headers it
\* gets, the auth token added; parse_response stays with connection.call;
\* every other name is handed to request by name, untouched.  When request
\* takes what it is handed, the call fails with ValueError, raised by the
\* requests library with no request sent, exactly when files come together
\* with a data that is a str.
C20_LeftoverHandedOrTypeError ==
    ReachedExec(call) =>
        /\ handed.called <=> Clash(call) = {}
        /\ Clash(call) # {} => outcome = TypeError
        /\ outcome = TypeError <=>
              \/ Clash(call) # {}
              \/ ~(DOMAIN Extra(call)
                      \subseteq (IF strict THEN {"quiet"} ELSE {}))
        /\ outcome = TypeError => sent = <<>>
        /\ outcome = ValueError <=>
              /\ Clash(call) = {}
              /\ DOMAIN Extra(call)
                    \subseteq (IF strict THEN {"quiet"} ELSE {})
              /\ FilesWithStrData(call)
        /\ outcome = ValueError => sent = <<>>
        /\ handed.called =>
              /\ handed.kwargs = Extra(call)
              /\ \A n \in DOMAIN Leftover(call) \cap {"params", "data", "files"} :
                    n \in DOMAIN handed.parts
                        /\ handed.parts[n] = call.kwargs[n]
              /\ "headers" \in DOMAIN Leftover(call) =>
                    /\ "headers" \in DOMAIN handed.parts
                    /\ handed.parts["headers"]
                          = <<call.kwargs["headers"], "X-Rundeck-Auth-Token">>

\* system_info(headers=..., quiet=...) on a strict connection: the headers
\* reach request as its headers, quiet by name, and one request is sent
C20_Witness ==
    /\ call.op = "system_info"
    /\ strict
    /\ HasKey(call, "headers") /\ HasKey(call, "quiet")
    /\ handed.called
    /\ handed.kwargs = Restrict(call.kwargs, {"quiet"})
    /\ DOMAIN handed.parts = {"headers"}
    /\ Len(sent) = 1

(* ------------------- properties of connection.request ------------------ *)
\* the call has ended and got the response to its last request on a strict
\* connection without quiet=True
StrictResponse ==
    /\ Ended
    /\ strict
    /\ Len(sent) >= 1
    /\ ~(HasKey(call, "quiet") /\ call.kwargs["quiet"] = PyTrue)

\* C21 as stated: on a strict connection without quiet every response with
\* a status outside 200..299 is an error for the caller; on a tolerant
\* connection every response is returned without raising.
C21_Non2xxRaises ==
    /\ (StrictResponse /\ sent[Len(sent)].status \notin 200..299)
            => outcome = HTTPError
    /\ (~strict /\ Ended /\ Len(sent) >= 1) => outcome = Returned

\* C21: on a strict connection without quiet the caller gets HTTPError
\* exactly when the response has a client or server error status (400 to
\* 599), any other status is returned; on a tolerant connection every
\* response is returned without raising.
C21_ErrorStatusRaises ==
    /\ StrictResponse =>
          (outcome = HTTPError <=> sent[Len(sent)].status \in 400..599)
    /\ StrictResponse =>
          (outcome = Returned <=> sent[Len(sent)].status \notin 400..599)
    /\ (~strict /\ Ended /\ Len(sent) >= 1) => outcome = Returned

C21_Witness ==
    /\ StrictResponse
    /\ Len(sent) = 1
    /\ sent[1].status = 304
    /\ outcome = Returned

(* --------------------- properties of RundeckApi._exec ------------------ *)
\* the response to the call's request is parsed: _exec is called with
\* parse_response True, which is its default; jobs_export, job and
\* delete_job give False, execution_output gives the caller's or False
Parsed(c) ==
    CASE c.op \in {"jobs_export", "job", "delete_job"} -> FALSE
      [] c.op = "execution_output" ->
            HasKey(c, "parse_response") /\ c.kwargs["parse_response"] = PyTrue
      [] OTHER ->
            ~(HasKey(c, "parse_response")
                /\ c.kwargs["parse_response"] = PyFalse)
\* the call got as far as a parsed response, through RundeckApi and
\* without quiet=True, and the root of that response has no success
\* attribute
FailureThroughStrictApi ==
    /\ Ended
    /\ api_class = "RundeckApi"
    /\ Len(sent) >= 1
    /\ outcome # HTTPError
    /\ Parsed(call)
    /\ ~HasKey(call, "quiet")
    /\ ~sent[Len(sent)].success_attr

\* C22: a parsed response obtained through RundeckApi whose root has no
\* success attribute makes the call raise RundeckServerError; the call
\* never returns normally from it.
C22_ServerErrorRaised ==
    FailureThroughStrictApi => outcome = RundeckServerError

(* ========================= client.Rundeck ============================== *)
\* One call of a client operation on a client whose api is of class
\* api_class over a connection of version api_version, strict or not.
\* ids in an idlist, and its greatest length
MaxIds == 2
JobIds == {"a", "b"}

\* what a call ends with: a value returned or an exception raised
ReturnedValue(v) == [kind |-> "returned", value |-> v]
Raised(exception) == [kind |-> "raised", value |-> exception]

RECURSIVE SeqsUpTo(_, _)
\* the sequences over S of length at most n
SeqsUpTo(S, n) ==
    IF n = 0 THEN {<<>>}
    ELSE LET shorter == SeqsUpTo(S, n - 1)
         IN  shorter \cup {Append(q, x) : q \in shorter, x \in S}

\* an idlist argument: a list of ids, or a string of ids joined by commas
IdLists == [type : {"list", "str"}, ids : SeqsUpTo(JobIds, MaxIds)]

\* idlist.split(','): the empty string splits into one empty id
Split(ids) == IF ids = <<>> THEN <<"">> ELSE ids

\* delete_job(id): the api call, made with parse_response=False, then the
\* read of self.api_version, an attribute that Rundeck objects do not have;
\* lines 430-436 are not reached
delete_job_after(id, r) ==
    LET requested == [i \in 1..Len(r.sent) |->
                         [id |-> id, method |-> r.sent[i].method,
                          status |-> r.sent[i].status]]
    IN  IF r.outcome # Returned
        THEN [result |-> Raised(r.outcome.kind), sent |-> requested]
        ELSE [result |-> Raised("AttributeError"), sent |-> requested]

delete_job(id, answer) ==
    delete_job_after(id, ApiMethod("delete_job", NoKwargs, answer))

RECURSIVE delete_jobs_loop(_, _, _, _, _)
\* the for loop of delete_jobs from the i-th id on: RundeckServerError is
\* caught and its rundeck_response kept, any other exception leaves the loop
\* d: what delete_job(ids[i]) ended with
delete_jobs_pass(ids, answers, i, results, requested, d) ==
    IF d.result.kind = "raised" /\ d.result # Raised("RundeckServerError")
    THEN [result |-> d.result, sent |-> requested \o d.sent]
    ELSE delete_jobs_loop(ids, answers, i + 1,
                          Append(results,
                                 IF d.result = Raised("RundeckServerError")
                                 THEN "exc.rundeck_response"
                                 ELSE d.result.value),
                          requested \o d.sent)

delete_jobs_loop(ids, answers, i, results, requested) ==
    IF i > Len(ids)
    THEN [result |-> ReturnedValue(results), sent |-> requested]
    ELSE delete_jobs_pass(ids, answers, i, results, requested,
                          delete_job(ids[i], answers[i]))

delete_jobs(idlist, answers) ==
    delete_jobs_loop(IF idlist.type = "str" THEN Split(idlist.ids)
                     ELSE idlist.ids,
                     answers, 1, <<>>, <<>>)

ClientInit ==
    /\ api_version \in 1..RUNDECK_API_VERSION
    /\ strict \in BOOLEAN
    /\ api_class \in {"RundeckApi", "RundeckApiTolerant"}
    /\ call = NoCall
    /\ handed = NotHanded
    /\ sent = <<>>
    /\ outcome = NoOutcome
    /\ ClientIdle
    /\ PollerIdle /\ EnvelopeIdle /\ JobIdIdle /\ PoolIdle

DeleteJobs ==
    /\ client_call = NoClientCall
    /\ \E idlist \in IdLists, answers \in [1..MaxIds -> Answers] :
          LET r == delete_jobs(idlist, answers)
          IN  /\ client_call' = [op |-> "delete_jobs", idlist |-> idlist]
              /\ client_sent' = r.sent
              /\ client_result' = r.result
    /\ UNCHANGED <<vars, envVars, jobIdVars, facadeVars, poolVars>>

\* the job listings the server may hold, and the limits tried
MaxJobs == 2
Listings == SeqsUpTo(JobIds, MaxJobs)
Limits == {PyNone, "1", "2"}

\* job_ids[:limit]
Slice(job_ids, limit) ==
    CASE limit = PyNone -> job_ids
      [] limit = "1" -> SubSeq(job_ids, 1, IF Len(job_ids) < 1 THEN Len(job_ids) ELSE 1)
      [] limit = "2" -> SubSeq(job_ids, 1, IF Len(job_ids) < 2 THEN Len(job_ids) ELSE 2)

\* list_jobs: api.jobs, raise_for_error, and the 'jobs' transform, which
\* gives the listing; api.jobs raises before any of it
list_jobs_after(r, listing) ==
    IF r.outcome # Returned
    THEN [result |-> Raised(r.outcome.kind), sent |-> r.sent]
    ELSE [result |-> ReturnedValue(listing), sent |-> r.sent]

list_jobs(kwargs, listing, answer) ==
    list_jobs_after(ApiMethod("jobs", kwargs, answer), listing)

\* get_job_ids after resp = self.list_jobs(project, **kwargs)
get_job_ids_after(resp, limit) ==
    IF resp.result.kind = "raised" THEN resp
    ELSE IF Len(resp.result.value) > 0
    THEN [resp EXCEPT !.result =
              ReturnedValue(Slice(resp.result.value, limit))]
    ELSE [resp EXCEPT !.result = Raised("JobNotFound")]

get_job_ids(limit, kwargs, listing, answer) ==
    get_job_ids_after(list_jobs(kwargs, listing, answer), limit)

\* kwargs['jobExactFilter'] = name, when a name is given
NameFilter(name) == IF name = PyNone THEN NoKwargs
                    ELSE [n \in {"jobExactFilter"} |-> name]

\* job_list[0]
FirstOf(job_list) ==
    IF job_list.result.kind = "raised" THEN job_list
    ELSE [job_list EXCEPT !.result = ReturnedValue(job_list.result.value[1])]

\* get_job_id: name, when given, becomes jobExactFilter; the first id of
\* get_job_ids(limit=1)
get_job_id(name, listing, answer) ==
    FirstOf(get_job_ids("1", NameFilter(name), listing, answer))

GetJobIds ==
    /\ client_call = NoClientCall
    /\ \E limit \in Limits, listing \in Listings, answer \in Answers,
          filtered \in BOOLEAN :
          LET kwargs == IF filtered THEN [n \in {"jobExactFilter"} |-> "x"]
                        ELSE NoKwargs
              r == get_job_ids(limit, kwargs, listing, answer)
          IN  /\ client_call' = [op |-> "get_job_ids", limit |-> limit,
                                 kwargs |-> kwargs, listing |-> listing]
              /\ client_sent' = r.sent
              /\ client_result' = r.result
    /\ UNCHANGED <<vars, envVars, jobIdVars, facadeVars, poolVars>>

GetJobId ==
    /\ client_call = NoClientCall
    /\ \E name \in {PyNone, "x"}, listing \in Listings, answer \in Answers :
          LET r == get_job_id(name, listing, answer)
          IN  /\ client_call' = [op |-> "get_job_id", name |-> name,
                                 listing |-> listing]
              /\ client_sent' = r.sent
              /\ client_result' = r.result
    /\ UNCHANGED <<vars, envVars, jobIdVars, facadeVars, poolVars>>

\* a node given to update_project_resources: a tuple of some length or a
\* dict with some keys
required_keys == {"name", "hostname", "username"}
NodeTuple(n) == [type |-> "tuple", len |-> n, keys |-> {}]
NodeDict(keys) == [type |-> "dict", len |-> Cardinality(keys), keys |-> keys]
NodeValues ==
    {NodeTuple(2), NodeTuple(3), NodeDict(required_keys),
     NodeDict({"name", "hostname"}), NodeDict(required_keys \cup {"tags"})}
\* the nodes argument: one node, a list of at most MaxNodes nodes, or a
\* value that is no tuple, dict or list
MaxNodes == 2
NodesArgs ==
    [type : {"node"}, items : {<<n>> : n \in NodeValues}]
        \cup [type : {"list"}, items : SeqsUpTo(NodeValues, MaxNodes)]
        \cup [type : {"str", "NoneType"}, items : {<<>>}]

\* the test under which a node becomes a RundeckNode
IsValidNode(node) ==
    \/ node.type = "dict" /\ required_keys \subseteq node.keys
    \/ node.type = "tuple" /\ node.len = 3

\* update_project_resources up to the 'success_message' transform: the
\* last line returns the InvalidResourceSpecification object, it does not
\* raise it
\* what the method ends with when the api call is made and ends with r
project_resources_updated(r) ==
    [result |-> IF r.outcome = Returned THEN ReturnedValue("envelope")
                ELSE Raised(r.outcome.kind),
     sent |-> r.sent]

update_project_resources(nodes, answer) ==
    IF nodes.type \notin {"node", "list"}
    THEN [result |-> Raised("InvalidResourceSpecification"), sent |-> <<>>]
    ELSE IF Len(SelectSeq(nodes.items, IsValidNode)) > 0
    THEN project_resources_updated(
             ApiMethod("project_resources_update", NoKwargs, answer))
    ELSE [result |-> ReturnedValue("InvalidResourceSpecification"),
          sent |-> <<>>]

UpdateProjectResources ==
    /\ client_call = NoClientCall
    /\ \E nodes \in NodesArgs, answer \in Answers :
          LET r == update_project_resources(nodes, answer)
          IN  /\ client_call' = [op |-> "update_project_resources",
                                 nodes |-> nodes]
              /\ client_sent' = r.sent
              /\ client_result' = r.result
    /\ UNCHANGED <<vars, envVars, jobIdVars, facadeVars, poolVars>>

ClientNext == DeleteJobs \/ GetJobIds \/ GetJobId \/ UpdateProjectResources

ClientSpec == ClientInit /\ [][ClientNext]_allVars

(* ------------------ properties of the client operations ---------------- *)
\* the ids a delete_jobs call is about, in input order
IdsOf(idlist) == IF idlist.type = "str" THEN Split(idlist.ids) ELSE idlist.ids

\* C23: delete_jobs attempts the deletion of every id of idlist in input
\* order and returns a list with exactly one entry per id.
C23_DeleteJobsReportsEveryId ==
    client_call.op = "delete_jobs" =>
        /\ client_result.kind = "returned"
        /\ Len(client_result.value) = Len(IdsOf(client_call.idlist))
        /\ [i \in 1..Len(client_sent) |-> client_sent[i].id]
              = IdsOf(client_call.idlist)

\* C24: get_job_ids and get_job_id raise JobNotFound exactly when the
\* listing is empty; otherwise get_job_ids returns the listed ids in order,
\* truncated to limit, and get_job_id returns the first listed id.
C24_JobNotFoundIffEmptyListing ==
    /\ client_call.op \in {"get_job_ids", "get_job_id"} =>
          (client_result = Raised("JobNotFound")
               <=> client_call.listing = <<>>)
    /\ (client_call.op = "get_job_ids" /\ client_call.listing # <<>>) =>
          client_result
              = ReturnedValue(Slice(client_call.listing, client_call.limit))
    /\ (client_call.op = "get_job_id" /\ client_call.listing # <<>>) =>
          client_result = ReturnedValue(client_call.listing[1])

\* the resource specification is malformed: no tuple, dict or list, or no
\* node with name, hostname and username
Malformed(nodes) ==
    \/ nodes.type \notin {"node", "list"}
    \/ \A i \in 1..Len(nodes.items) :
          ~(\/ nodes.items[i].type = "tuple" /\ nodes.items[i].len = 3
            \/ nodes.items[i].type = "dict"
                  /\ {"name", "hostname", "username"}
                        \subseteq nodes.items[i].keys)

\* C25: update_project_resources on a malformed resource specification
\* raises InvalidResourceSpecification and sends no request.
C25_MalformedNodesRaise ==
    (client_call.op = "update_project_resources"
         /\ Malformed(client_call.nodes)) =>
        /\ client_result = Raised("InvalidResourceSpecification")
        /\ client_sent = <<>>

(* ============================ util.node2dict =========================== *)
\* An element: its attributes and its children, both in document order.
\* A Python dict is written as the sequence of its <<key, value>> items in
\* insertion order.
MaxChildren == 2
NodeKeys == {"id", "name"}
AttrValues == {"attr-1", "attr-2"}
ChildTexts == {"text-1", "text-2", PyNone}

Keys(items) == {items[i][1] : i \in 1..Len(items)}

RECURSIVE dict(_)
\* dict(list of pairs): a later pair with the key of an earlier one replaces
\* its value and keeps its place
dict(pairs) ==
    IF pairs = <<>> THEN <<>>
    ELSE LET init == dict(SubSeq(pairs, 1, Len(pairs) - 1))
             last == pairs[Len(pairs)]
         IN  IF last[1] \in Keys(init)
             THEN [i \in 1..Len(init) |->
                      IF init[i][1] = last[1] THEN last ELSE init[i]]
             ELSE Append(init, last)

\* d[k] for a key of d
Get(d, k) ==
    LET at == CHOOSE i \in 1..Len(d) : d[i][1] = k
    IN  d[at][2]

\* the attribute lists: every key at most once
AttrLists ==
    {a \in SeqsUpTo(NodeKeys \X AttrValues, Cardinality(NodeKeys)) :
        Cardinality(Keys(a)) = Len(a)}
Elements ==
    [attrib : AttrLists,
     children : SeqsUpTo(NodeKeys \X ChildTexts, MaxChildren)]

child2dict(el) == dict(el.children)
attr2dict(el) == dict(el.attrib)
\* dict(list(attr2dict(el).items()) + list(child2dict(el).items()))
node2dictAttrLast(el) == dict(child2dict(el) \o attr2dict(el))
node2dict(el) == dict(attr2dict(el) \o child2dict(el))

NodeInit ==
    /\ client_call \in [op : {"node2dict"}, el : Elements]
    /\ client_sent = <<>>
    /\ client_result = NoResult
    /\ PollerIdle /\ EnvelopeIdle /\ JobIdIdle /\ FacadeIdle /\ PoolIdle

Node2Dict ==
    /\ client_result = NoResult
    /\ client_result' = ReturnedValue(node2dict(client_call.el))
    /\ UNCHANGED <<client_call, client_sent>>
    /\ UNCHANGED <<vars, envVars, jobIdVars, facadeVars, poolVars>>

NodeNext == Node2Dict

NodeSpec == NodeInit /\ [][NodeNext]_allVars

(* ----------------------- properties of node2dict ----------------------- *)
\* the value of attribute k, and the text of the last child named k
AttrOf(el, k) ==
    LET at == CHOOSE i \in 1..Len(el.attrib) : el.attrib[i][1] = k
    IN  el.attrib[at][2]
LastChildOf(el, k) ==
    LET named == {i \in 1..Len(el.children) : el.children[i][1] = k}
        last == CHOOSE i \in named : \A j \in named : j <= i
    IN  el.children[last][2]

\* the keys of the mapping are the attribute names and the child names,
\* and a name on one side only keeps that side's value
KeysKept(el, d) ==
    /\ Keys(d) = Keys(el.attrib) \cup Keys(el.children)
    /\ Cardinality(Keys(d)) = Len(d)
    /\ \A k \in Keys(el.attrib) \ Keys(el.children) :
          Get(d, k) = AttrOf(el, k)
    /\ \A k \in Keys(el.children) \ Keys(el.attrib) :
          Get(d, k) = LastChildOf(el, k)

\* C27 as stated: a name that is both an attribute and a child holds the
\* attribute's value in the mapping; names on one side only are kept.
C27_AttributeWins ==
    client_result.kind = "returned" =>
        /\ KeysKept(client_call.el, client_result.value)
        /\ \A k \in Keys(client_call.el.attrib)
                      \cap Keys(client_call.el.children) :
              Get(client_result.value, k) = AttrOf(client_call.el, k)

\* C27: a name that is both an attribute and a child holds the child's
\* text in the mapping (the last such child's); names on one side only are
\* kept.
C27_ChildWins ==
    client_result.kind = "returned" =>
        /\ KeysKept(client_call.el, client_result.value)
        /\ \A k \in Keys(client_call.el.attrib)
                      \cap Keys(client_call.el.children) :
              Get(client_result.value, k) = LastChildOf(client_call.el, k)

C27_Witness ==
    /\ client_call.op = "node2dict"
    /\ client_call.el = [attrib |-> <<<<"id", "attr-1">>, <<"name", "attr-2">>>>,
                         children |-> <<<<"id", "text-1">>>>]
    /\ client_result
          = ReturnedValue(<<<<"id", "text-1">>, <<"name", "attr-2">>>>)

(* ============ several envelopes and the caches of memoize ============== *)
\* Envelopes are created, read and discarded in one process, in any
\* interleaving.  Each memoized function has one cache dict, made when the
\* class is defined and shared by all envelopes.
MaxCreated == 3
MaxPoolReads == 2
\* where an envelope object may live: the allocator gives a new envelope
\* any address that no live envelope has, one never used before or the
\* address of a discarded envelope
AddressNames == <<"0x1", "0x2", "0x3", "0x4", "0x5", "0x6">>
Addresses == {AddressNames[i] : i \in 1..MaxCreated}
\* the envelope objects, by order of creation
EnvelopeNames ==
    <<"<envelope 1 itself>", "<envelope 2 itself>", "<envelope 3 itself>",
      "<envelope 4 itself>", "<envelope 5 itself>", "<envelope 6 itself>">>
\* the derived properties read
PoolProperties == {"success", "message"}
PoolBodies ==
    {RundeckResponse(TRUE, "Job deleted", Absent, "11", PyNone),
     RundeckResponse(FALSE, Absent, "No such job", Absent, PyNone)}

EmptyCache == [k \in {} |-> Idle]
\* key = str(args) + str(kwargs): the repr of the envelope, which carries
\* its address
Key(e) == e.addr

\* a read of a memoized property with the function's cache c: its value
\* and the cache afterwards.  memoizedByKey is memoizer; what memoize
\* returns never calls memoizer, so the cache is neither read nor written
memoizedByKey(c, key, self, computed) ==
    IF key \in DOMAIN c
    THEN [value |-> c[key], cache |-> c]
    ELSE [value |-> computed,
          cache |-> [k \in DOMAIN c \cup {key} |->
                        IF k = key THEN computed ELSE c[k]]]
memoized(c, key, self, computed) ==
    [value |-> memoize(self, computed).value, cache |-> c]

PoolInit ==
    /\ pool = {}
    /\ pool_reads = <<>>
    /\ cache = [p \in Properties |-> EmptyCache]
    /\ created = 0
    /\ PollerIdle /\ EnvelopeIdle /\ JobIdIdle /\ FacadeIdle /\ ClientIdle

\* RundeckResponse(response, api_version)
Create ==
    /\ created < MaxCreated
    /\ \E body \in PoolBodies,
          addr \in Addresses \ {e.addr : e \in pool} :
          pool' = pool \cup
                    {[body |-> body, addr |-> addr, serial |-> created + 1]}
    /\ created' = created + 1
    /\ UNCHANGED <<pool_reads, cache>>
    /\ UNCHANGED <<vars, envVars, jobIdVars, facadeVars, clientVars>>

\* a read of a derived property of a live envelope
PoolRead ==
    /\ Len(pool_reads) < MaxPoolReads
    /\ \E e \in pool, p \in PoolProperties :
          LET m == memoized(cache[p], Key(e), EnvelopeNames[e.serial],
                            Wrapped(e.body, p))
          IN  /\ pool_reads' =
                    Append(pool_reads,
                           [serial |-> e.serial, addr |-> e.addr,
                            body |-> e.body, prop |-> p, value |-> m.value])
              /\ cache' = [cache EXCEPT ![p] = m.cache]
    /\ UNCHANGED <<pool, created>>
    /\ UNCHANGED <<vars, envVars, jobIdVars, facadeVars, clientVars>>

\* the last reference to an envelope goes away
Discard ==
    /\ \E e \in pool : pool' = pool \ {e}
    /\ UNCHANGED <<pool_reads, cache, created>>
    /\ UNCHANGED <<vars, envVars, jobIdVars, facadeVars, clientVars>>

PoolNext == Create \/ PoolRead \/ Discard

PoolSpec == PoolInit /\ [][PoolNext]_allVars

(* -------------------- properties of several envelopes ------------------ *)
\* C26: the value of a derived property read from an envelope comes from
\* that envelope alone (it is the envelope itself or the function of its
\* own body), whatever other envelopes were created, read or discarded
\* before; the caches of memoize hold nothing that one envelope could get
\* from another.
C26_NoSharedState ==
    /\ \A i \in 1..Len(pool_reads) :
          pool_reads[i].value
              \in {EnvelopeNames[pool_reads[i].serial],
                   Wrapped(pool_reads[i].body, pool_reads[i].prop)}
    /\ \A p \in Properties : DOMAIN cache[p] = {}

\* two envelopes with different bodies that lived at the same address, one
\* after the other, were read for the same property
C26_Witness ==
    /\ Len(pool_reads) >= 2
    /\ pool_reads[1].prop = "message" /\ pool_reads[2].prop = "message"
    /\ pool_reads[1].addr = pool_reads[2].addr
    /\ pool_reads[1].serial # pool_reads[2].serial
    /\ pool_reads[1].body # pool_reads[2].body
    /\ pool_reads[2].value = EnvelopeNames[pool_reads[2].serial]
====
